---- MODULE Spec2Model ----
(***************************************************************************)
(* Model of auto_clicker (src/auto_clicker/src/main.rs).                   *)
(*                                                                         *)
(* Two threads share one Data object: the listener thread runs             *)
(* handle_event once per input event, the clicker thread runs the loop of  *)
(* clicker_thread.  Data holds the atomic flag is_running and the mutex    *)
(* protected initial_mouse_pos; set_running writes one line to stdout per  *)
(* effective change of the flag.                                           *)
(*                                                                         *)
(* Mouse coordinates are f64 in the source.  They are modelled as integer  *)
(* pixel coordinates, on which the f64 subtraction, multiplication and     *)
(* addition of handle_event are exact.                                     *)
(***************************************************************************)
EXTENDS Integers, Sequences, FiniteSets

VARIABLES
    is_running,         \* Data.is_running (AtomicBool)
    initial_mouse_pos,  \* Data.initial_mouse_pos: None or Some(<<x, y>>)
    stdout,             \* the "Auto clicker: ..." lines written so far
    event,              \* the event most recently passed to handle_event
    call,               \* the arguments of the latest direct set_running call
    emitted,            \* history: lines written by the latest handler/call
    streak,             \* history: toggle-key presses handled in a row
    moves,              \* history: mouse moves handled while running since
                        \*          the flag last became true
    fresh,              \* history: the position was recorded since the flag
                        \*          last became true
    lpc,                \* listener thread: position in handle_event
    sr_new_running,     \* listener thread: set_running's new_running
    sr_reason,          \* listener thread: set_running's reason
    pos_guard,          \* the initial_mouse_pos mutex is held
    cpc,                \* clicker thread: position in clicker_thread
    armed_seen,         \* clicker thread: what line 90 read in this cycle
    cycle_calls,        \* history: send_event calls of this cycle
    held,               \* history: a press was sent and no release since
    off_calls,          \* history: the simulate calls made since the flag
                        \*          was last stored (kept by SpecLive only)
    sp_pc,              \* sample_positive: position
    sp_i,               \* sample_positive: loop counter of line 107
    sp_value,           \* sample_positive: value of line 108
    sp_draws,           \* history: the values drawn by this call, in order
    sp_result,          \* sample_positive: None or Some(returned value)
    sp_mean,            \* sample_positive: distribution.mean()
    aw_pc,              \* adaptive_wait: position
    aw_end,             \* adaptive_wait: end of line 127
    aw_now,             \* adaptive_wait: now of line 129
    aw_wake,            \* adaptive_wait: when the sleep of line 134 is over
    aw_slices,          \* history: the slices this wait has slept
    clock               \* Instant::now()

handler_vars == <<lpc, sr_new_running, sr_reason, pos_guard>>

sample_vars == <<sp_pc, sp_i, sp_value, sp_draws, sp_result, sp_mean>>

wait_vars == <<aw_pc, aw_end, aw_now, aw_wake, aw_slices, clock>>

\* sample_positive and adaptive_wait run on the clicker thread
fn_vars == <<sample_vars, wait_vars>>

clicker_vars == <<cpc, armed_seen, cycle_calls, held, fn_vars>>

vars == <<is_running, initial_mouse_pos, stdout, event, call, emitted,
          streak, moves, fresh, handler_vars, off_calls, clicker_vars>>

listener_vars == <<is_running, initial_mouse_pos, stdout, event, call,
                   emitted, streak, moves, fresh, handler_vars>>

----------------------------------------------------------------------------
(* Bounds of the model *)

\* handlers stop being scheduled once stdout holds this many lines
MaxLog == 4

\* the history counter moves saturates here
MaxMoves == 2

\* the history counter streak saturates here
MaxStreak == 2

\* the history off_calls keeps this many calls
MaxOffCalls == 3

\* the longest duration passed to adaptive_wait, in clock units
MaxDuration == 9

\* no call of adaptive_wait ends later than this
MaxClock == 12

\* pixel coordinates events are drawn from: distances to <<0, 0>> below,
\* exactly at and above the stop distance occur among them
Coords == {0, 10, 16, 17, 20}

Pixels == Coords \X Coords

----------------------------------------------------------------------------
(* Constants of the program *)

RUNNING_TOGGLE_KEY == "F8"

MOVE_STOP_DISTANCE_PX == 16

----------------------------------------------------------------------------
(* Values *)

None == <<>>

Some(v) == <<v>>

Min(a, b) == IF a < b THEN a ELSE b

Last(s) == s[Len(s)]

\* rdev::Event, reduced to its event_type
KeyPress(k) == [type |-> "KeyPress", key |-> k, x |-> 0, y |-> 0]

KeyRelease(k) == [type |-> "KeyRelease", key |-> k, x |-> 0, y |-> 0]

MouseMove(px, py) == [type |-> "MouseMove", key |-> "-", x |-> px, y |-> py]

ButtonPress == [type |-> "ButtonPress", key |-> "Left", x |-> 0, y |-> 0]

ButtonRelease == [type |-> "ButtonRelease", key |-> "Left", x |-> 0, y |-> 0]

Wheel == [type |-> "Wheel", key |-> "-", x |-> 0, y |-> 0]

NoEvent == [type |-> "NoEvent", key |-> "-", x |-> 0, y |-> 0]

\* a direct call set_running(new_running, reason); repeat: the step before
\* was a direct call with the same new_running
SetRunningArgs(new_running, reason, repeat) ==
    [made |-> TRUE, new_running |-> new_running, reason |-> reason,
     repeat |-> repeat]

NoCall == [made |-> FALSE, new_running |-> FALSE, reason |-> "-",
           repeat |-> FALSE]

MoveEvents == {MouseMove(p[1], p[2]) : p \in Pixels}

OtherEvents == {KeyPress("F9"), KeyRelease(RUNNING_TOGGLE_KEY),
                ButtonPress, ButtonRelease, Wheel}

Events == {KeyPress(RUNNING_TOGGLE_KEY)} \cup MoveEvents \cup OtherEvents

IsToggle(e) == e.type = "KeyPress" /\ e.key = RUNNING_TOGGLE_KEY

Reasons == {"hotkey pressed", "mouse moved"}

\* the Data object together with the lines it has written
Data == [is_running |-> is_running,
         initial_mouse_pos |-> initial_mouse_pos,
         stdout |-> stdout]

----------------------------------------------------------------------------
(* Data *)

get_running(d) == d.is_running

\* lines 48-49
LogLine(new_running, reason) ==
    [state |-> IF new_running THEN "ON " ELSE "OFF", reason |-> reason]

\* set_running without the early return of lines 40-42
set_running_always(d, new_running, reason) ==
    [is_running |-> new_running,
     initial_mouse_pos |-> IF new_running THEN None ELSE d.initial_mouse_pos,
     stdout |-> Append(d.stdout, LogLine(new_running, reason))]

\* set_running clearing the position on every effective change
set_running_clear_both(d, new_running, reason) ==
    IF new_running = get_running(d)
    THEN d
    ELSE [is_running |-> new_running,
          initial_mouse_pos |-> None,
          stdout |-> Append(d.stdout, LogLine(new_running, reason))]

\* set_running without lines 43-45
set_running_noclear(d, new_running, reason) ==
    IF new_running = get_running(d)
    THEN d
    ELSE [is_running |-> new_running,
          initial_mouse_pos |-> d.initial_mouse_pos,
          stdout |-> Append(d.stdout, LogLine(new_running, reason))]

\* set_running without the store of line 46
set_running_nostore(d, new_running, reason) ==
    IF new_running = get_running(d)
    THEN d
    ELSE [is_running |-> d.is_running,
          initial_mouse_pos |->
              IF new_running THEN None ELSE d.initial_mouse_pos,
          stdout |-> Append(d.stdout, LogLine(new_running, reason))]

set_running(d, new_running, reason) ==
    IF new_running = get_running(d)
    THEN d
    ELSE [is_running |-> new_running,
          initial_mouse_pos |->
              IF new_running THEN None ELSE d.initial_mouse_pos,
          stdout |-> Append(d.stdout, LogLine(new_running, reason))]

----------------------------------------------------------------------------
(* handle_event *)

\* the comparison of line 166 with >= for >
ExceedsStopDistance_ge(x, y, initial_x, initial_y) ==
    LET dx == x - initial_x
        dy == y - initial_y
        dist_sq == dx * dx + dy * dy
    IN  dist_sq >= MOVE_STOP_DISTANCE_PX * MOVE_STOP_DISTANCE_PX

\* lines 162-166
ExceedsStopDistance(x, y, initial_x, initial_y) ==
    LET dx == x - initial_x
        dy == y - initial_y
        dist_sq == dx * dx + dy * dy
    IN  dist_sq > MOVE_STOP_DISTANCE_PX * MOVE_STOP_DISTANCE_PX

\* the hotkey switching on instead of toggling
OnToggleKey_on(d) ==
    set_running(d, TRUE, "hotkey pressed")

\* lines 151-154
OnToggleKey(d) ==
    LET new_running == ~get_running(d)
    IN  set_running(d, new_running, "hotkey pressed")

\* a move within the stop distance becoming the new reference position
OnMouseMove_track(d, x, y) ==
    IF ~get_running(d)
    THEN d
    ELSE IF d.initial_mouse_pos # None
         THEN LET initial == d.initial_mouse_pos[1]
              IN  IF ExceedsStopDistance(x, y, initial[1], initial[2])
                  THEN set_running(d, FALSE, "mouse moved")
                  ELSE [d EXCEPT !.initial_mouse_pos = Some(<<x, y>>)]
         ELSE [d EXCEPT !.initial_mouse_pos = Some(<<x, y>>)]

\* handle_event without the early return of lines 156-158
OnMouseMove_nocheck(d, x, y) ==
    IF d.initial_mouse_pos # None
    THEN LET initial == d.initial_mouse_pos[1]
         IN  IF ExceedsStopDistance(x, y, initial[1], initial[2])
             THEN set_running(d, FALSE, "mouse moved")
             ELSE d
    ELSE [d EXCEPT !.initial_mouse_pos = Some(<<x, y>>)]

\* lines 155-172
OnMouseMove(d, x, y) ==
    IF ~get_running(d)
    THEN d
    ELSE IF d.initial_mouse_pos # None
         THEN LET initial == d.initial_mouse_pos[1]
              IN  IF ExceedsStopDistance(x, y, initial[1], initial[2])
                  THEN set_running(d, FALSE, "mouse moved")
                  ELSE d
         ELSE [d EXCEPT !.initial_mouse_pos = Some(<<x, y>>)]

handle_event(e, d) ==
    IF IsToggle(e) THEN OnToggleKey(d)
    ELSE IF e.type = "MouseMove" THEN OnMouseMove(d, e.x, e.y)
    ELSE d

----------------------------------------------------------------------------
(* Listener thread: one step per event delivered by rdev::listen *)

\* the history variables after a handler that took Data to d
Observe(e, d) ==
    /\ event' = e
    /\ call' = NoCall
    /\ emitted' = Len(d.stdout) - Len(stdout)
    /\ streak' = IF IsToggle(e) THEN Min(streak + 1, MaxStreak) ELSE 0
    /\ moves' = IF ~is_running /\ d.is_running THEN 0
                ELSE IF e.type = "MouseMove" /\ is_running
                     THEN Min(moves + 1, MaxMoves)
                     ELSE moves
    /\ fresh' = IF ~is_running /\ d.is_running THEN FALSE
                ELSE IF d.initial_mouse_pos
                          \notin {None, initial_mouse_pos} THEN TRUE
                ELSE fresh

HandleEvent(e) ==
    /\ Len(stdout) < MaxLog
    /\ LET d == handle_event(e, Data)
       IN  /\ is_running' = d.is_running
           /\ initial_mouse_pos' = d.initial_mouse_pos
           /\ stdout' = d.stdout
           /\ Observe(e, d)
    /\ UNCHANGED <<handler_vars, off_calls, clicker_vars>>

----------------------------------------------------------------------------
(* Clicker thread *)

\* the loop going on to click whatever line 90 read
ClickerCheck_noidle ==
    /\ cpc = "check"
    /\ armed_seen' = is_running
    /\ cycle_calls' = <<>>
    /\ cpc' = "sample"
    /\ UNCHANGED <<held, off_calls, fn_vars>>
    /\ UNCHANGED listener_vars

\* line 90
ClickerCheck ==
    /\ cpc = "check"
    /\ armed_seen' = is_running
    /\ cycle_calls' = <<>>
    /\ cpc' = IF is_running THEN "sample" ELSE "idle"
    /\ UNCHANGED <<held, off_calls, fn_vars>>
    /\ UNCHANGED listener_vars

\* the idle step waiting for the mutex of initial_mouse_pos
ClickerIdle_lock ==
    /\ cpc = "idle"
    /\ ~pos_guard
    /\ cpc' = "check"
    /\ UNCHANGED <<armed_seen, cycle_calls, held, off_calls, fn_vars>>
    /\ UNCHANGED listener_vars

\* the idle sleep never ending
ClickerIdle_stuck ==
    /\ cpc = "idle"
    /\ cpc' = "idle"
    /\ UNCHANGED <<armed_seen, cycle_calls, held, off_calls, fn_vars>>
    /\ UNCHANGED listener_vars

\* lines 92-93
ClickerIdle ==
    /\ cpc = "idle"
    /\ cpc' = "check"
    /\ UNCHANGED <<armed_seen, cycle_calls, held, off_calls, fn_vars>>
    /\ UNCHANGED listener_vars

\* lines 96-97
ClickerSample ==
    /\ cpc = "sample"
    /\ cpc' = "press"
    /\ UNCHANGED <<armed_seen, cycle_calls, held, off_calls, fn_vars>>
    /\ UNCHANGED listener_vars

\* a failed rdev::simulate ending the cycle
send_event_abort(button_event, next_pc) ==
    \E ok \in BOOLEAN :
        /\ cycle_calls' = Append(cycle_calls, [ev |-> button_event, ok |-> ok])
        /\ held' = (button_event = "ButtonPress")
        /\ cpc' = IF ok THEN next_pc ELSE "check"
        /\ UNCHANGED <<armed_seen, fn_vars>>

\* lines 117-124: rdev::simulate succeeds or fails, then the 1 ms sleep
send_event(button_event, next_pc) ==
    \E ok \in BOOLEAN :
        /\ cycle_calls' = Append(cycle_calls, [ev |-> button_event, ok |-> ok])
        /\ held' = (button_event = "ButtonPress")
        /\ cpc' = next_pc
        /\ UNCHANGED <<armed_seen, fn_vars>>

\* line 99
PressButton ==
    /\ cpc = "press"
    /\ send_event("ButtonPress", "hold")
    /\ UNCHANGED listener_vars

ClickerPress == PressButton /\ UNCHANGED off_calls

\* the hold wait cut short by a cleared flag, the release skipped
ClickerHold_abort ==
    /\ cpc = "hold"
    /\ cpc' = IF is_running THEN "release" ELSE "check"
    /\ UNCHANGED <<armed_seen, cycle_calls, held, off_calls, fn_vars>>
    /\ UNCHANGED listener_vars

\* line 100
ClickerHold ==
    /\ cpc = "hold"
    /\ cpc' = "release"
    /\ UNCHANGED <<armed_seen, cycle_calls, held, off_calls, fn_vars>>
    /\ UNCHANGED listener_vars

\* line 101
ReleaseButton ==
    /\ cpc = "release"
    /\ send_event("ButtonRelease", "interval")
    /\ UNCHANGED listener_vars

ClickerRelease == ReleaseButton /\ UNCHANGED off_calls

\* the loop starting its next cycle without reading the flag
ClickerInterval_nocheck ==
    /\ cpc = "interval"
    /\ cpc' = "sample"
    /\ UNCHANGED <<armed_seen, cycle_calls, held, off_calls, fn_vars>>
    /\ UNCHANGED listener_vars

\* line 102
ClickerInterval ==
    /\ cpc = "interval"
    /\ cpc' = "check"
    /\ UNCHANGED <<armed_seen, cycle_calls, held, off_calls, fn_vars>>
    /\ UNCHANGED listener_vars

Clicker ==
    \/ ClickerCheck
    \/ ClickerIdle
    \/ ClickerSample
    \/ ClickerPress
    \/ ClickerHold
    \/ ClickerRelease
    \/ ClickerInterval

----------------------------------------------------------------------------
(* The program: Data::new, then both threads *)

Init ==
    /\ is_running = FALSE
    /\ initial_mouse_pos = None
    /\ stdout = <<>>
    /\ event = NoEvent
    /\ call = NoCall
    /\ emitted = 0
    /\ streak = 0
    /\ moves = 0
    /\ fresh = FALSE
    /\ lpc = "listen"
    /\ sr_new_running = FALSE
    /\ sr_reason = "-"
    /\ pos_guard = FALSE
    /\ cpc = "check"
    /\ armed_seen = FALSE
    /\ cycle_calls = <<>>
    /\ held = FALSE
    /\ off_calls = <<>>
    /\ sp_pc = "idle"
    /\ sp_i = 0
    /\ sp_value = 0
    /\ sp_draws = <<>>
    /\ sp_result = None
    /\ sp_mean = 0
    /\ aw_pc = "idle"
    /\ aw_end = 0
    /\ aw_now = 0
    /\ aw_wake = 0
    /\ aw_slices = {}
    /\ clock = 0

Listen == \E e \in Events : HandleEvent(e)

Next ==
    \/ Listen
    \/ Clicker

Spec == Init /\ [][Next]_vars

----------------------------------------------------------------------------
(* Data on its own: set_running called with every argument, between the   *)
(* events that bring Data into each of its states                          *)

CallSetRunning(new_running, reason) ==
    /\ Len(stdout) < MaxLog
    /\ LET d == set_running(Data, new_running, reason)
       IN  /\ is_running' = d.is_running
           /\ initial_mouse_pos' = d.initial_mouse_pos
           /\ stdout' = d.stdout
           /\ emitted' = Len(d.stdout) - Len(stdout)
           /\ moves' = IF ~is_running /\ d.is_running THEN 0 ELSE moves
           /\ fresh' = IF ~is_running /\ d.is_running THEN FALSE ELSE fresh
    /\ call' = SetRunningArgs(new_running, reason,
                              call.made /\ call.new_running = new_running)
    /\ event' = NoEvent
    /\ streak' = 0
    /\ UNCHANGED <<handler_vars, off_calls, clicker_vars>>

DirectCall ==
    \E new_running \in BOOLEAN, reason \in Reasons :
        CallSetRunning(new_running, reason)

NextUnit ==
    \/ Listen
    \/ DirectCall

SpecUnit == Init /\ [][NextUnit]_vars

----------------------------------------------------------------------------
(* The listener thread statement by statement: every load and store of    *)
(* is_running, every lock of initial_mouse_pos and every write to stdout   *)
(* is a step of its own, interleaved with the clicker thread               *)

\* the statement after position pc of set_running; "return" leaves it
SetRunningFlow_store_first(pc, new_running, current) ==
    CASE pc = "sr_check" ->
            IF new_running = current THEN "return" ELSE "sr_store"
      [] pc = "sr_store" -> IF new_running THEN "sr_clear" ELSE "sr_print"
      [] pc = "sr_clear" -> "sr_print"
      [] pc = "sr_print" -> "return"

\* set_running clearing the position on every change of the flag
SetRunningFlow_clear_always(pc, new_running, current) ==
    CASE pc = "sr_check" ->
            IF new_running = current THEN "return" ELSE "sr_clear"
      [] pc = "sr_clear" -> "sr_store"
      [] pc = "sr_store" -> "sr_print"
      [] pc = "sr_print" -> "return"

\* lines 39-50: the order of the statements of set_running
SetRunningFlow(pc, new_running, current) ==
    CASE pc = "sr_check" ->
            IF new_running = current THEN "return"
            ELSE IF new_running THEN "sr_clear" ELSE "sr_store"
      [] pc = "sr_clear" -> "sr_store"
      [] pc = "sr_store" -> "sr_print"
      [] pc = "sr_print" -> "return"

\* where handle_event goes on when set_running returns: line 154 ends the
\* hotkey arm, line 168 is followed by the drop of pos_guard
AfterSetRunning == IF IsToggle(event) THEN "listen" ELSE "move_unlock"

SetRunningGoto(pc) ==
    LET next == SetRunningFlow(pc, sr_new_running, is_running)
    IN  lpc' = IF next = "return" THEN AfterSetRunning ELSE next

\* events delivered also after rdev::listen has returned
Receive_restarted(e) ==
    /\ lpc \in {"listen", "exited"}
    /\ Len(stdout) < MaxLog
    /\ event' = e
    /\ emitted' = 0
    /\ streak' = IF IsToggle(e) THEN Min(streak + 1, MaxStreak) ELSE 0
    /\ lpc' = IF IsToggle(e) THEN "toggle_read"
              ELSE IF e.type = "MouseMove" THEN "move_read"
              ELSE "listen"
    /\ UNCHANGED <<is_running, initial_mouse_pos, stdout, call, moves, fresh,
                   sr_new_running, sr_reason, pos_guard>>
    /\ UNCHANGED <<off_calls, clicker_vars>>

\* line 150: rdev::listen passes the next event to handle_event
Receive(e) ==
    /\ lpc = "listen"
    /\ Len(stdout) < MaxLog
    /\ event' = e
    /\ emitted' = 0
    /\ streak' = IF IsToggle(e) THEN Min(streak + 1, MaxStreak) ELSE 0
    /\ lpc' = IF IsToggle(e) THEN "toggle_read"
              ELSE IF e.type = "MouseMove" THEN "move_read"
              ELSE "listen"
    /\ UNCHANGED <<is_running, initial_mouse_pos, stdout, call, moves, fresh,
                   sr_new_running, sr_reason, pos_guard>>
    /\ UNCHANGED <<off_calls, clicker_vars>>

\* lines 152-153
ToggleRead ==
    /\ lpc = "toggle_read"
    /\ sr_new_running' = ~is_running
    /\ sr_reason' = "hotkey pressed"
    /\ lpc' = "sr_check"
    /\ UNCHANGED <<is_running, initial_mouse_pos, stdout, event, call,
                   emitted, streak, moves, fresh, pos_guard>>
    /\ UNCHANGED <<off_calls, clicker_vars>>

\* lines 40-42
SrCheck ==
    /\ lpc = "sr_check"
    /\ SetRunningGoto("sr_check")
    /\ UNCHANGED <<is_running, initial_mouse_pos, stdout, event, call,
                   emitted, streak, moves, fresh, sr_new_running, sr_reason,
                   pos_guard>>
    /\ UNCHANGED <<off_calls, clicker_vars>>

\* line 44: lock, assign None, unlock; waits while the mutex is held
SrClear ==
    /\ lpc = "sr_clear"
    /\ ~pos_guard
    /\ initial_mouse_pos' = None
    /\ SetRunningGoto("sr_clear")
    /\ UNCHANGED <<is_running, stdout, event, call, emitted, streak, moves,
                   fresh, sr_new_running, sr_reason, pos_guard>>
    /\ UNCHANGED <<off_calls, clicker_vars>>

\* set_running without the store of line 46
StoreRunning_skip ==
    /\ lpc = "sr_store"
    /\ SetRunningGoto("sr_store")
    /\ UNCHANGED <<is_running, moves, fresh>>
    /\ UNCHANGED <<initial_mouse_pos, stdout, event, call, emitted, streak,
                   sr_new_running, sr_reason, pos_guard>>
    /\ UNCHANGED clicker_vars

\* line 46
StoreRunning ==
    /\ lpc = "sr_store"
    /\ is_running' = sr_new_running
    /\ moves' = IF sr_new_running THEN 0 ELSE moves
    /\ fresh' = IF sr_new_running THEN FALSE ELSE fresh
    /\ SetRunningGoto("sr_store")
    /\ UNCHANGED <<initial_mouse_pos, stdout, event, call, emitted, streak,
                   sr_new_running, sr_reason, pos_guard>>
    /\ UNCHANGED clicker_vars

SrStore == StoreRunning /\ UNCHANGED off_calls

\* lines 48-49
SrWrite ==
    /\ lpc = "sr_print"
    /\ stdout' = Append(stdout, LogLine(sr_new_running, sr_reason))
    /\ emitted' = emitted + 1
    /\ SetRunningGoto("sr_print")
    /\ UNCHANGED <<is_running, initial_mouse_pos, event, call, streak, moves,
                   fresh, sr_new_running, sr_reason, pos_guard>>
    /\ UNCHANGED <<off_calls, clicker_vars>>

\* lines 156-158
MoveRead ==
    /\ lpc = "move_read"
    /\ lpc' = IF ~is_running THEN "listen" ELSE "move_lock"
    /\ UNCHANGED <<is_running, initial_mouse_pos, stdout, event, call,
                   emitted, streak, moves, fresh, sr_new_running, sr_reason,
                   pos_guard>>
    /\ UNCHANGED <<off_calls, clicker_vars>>

\* line 160
MoveLock ==
    /\ lpc = "move_lock"
    /\ ~pos_guard
    /\ pos_guard' = TRUE
    /\ moves' = Min(moves + 1, MaxMoves)
    /\ lpc' = "move_compare"
    /\ UNCHANGED <<is_running, initial_mouse_pos, stdout, event, call,
                   emitted, streak, fresh, sr_new_running, sr_reason>>
    /\ UNCHANGED <<off_calls, clicker_vars>>

\* lines 161-171
MoveCompare ==
    /\ lpc = "move_compare"
    /\ IF initial_mouse_pos # None
       THEN LET initial == initial_mouse_pos[1]
            IN  IF ExceedsStopDistance(event.x, event.y,
                                       initial[1], initial[2])
                THEN /\ sr_new_running' = FALSE
                     /\ sr_reason' = "mouse moved"
                     /\ lpc' = "sr_check"
                     /\ UNCHANGED <<initial_mouse_pos, fresh>>
                ELSE /\ lpc' = "move_unlock"
                     /\ UNCHANGED <<initial_mouse_pos, fresh,
                                    sr_new_running, sr_reason>>
       ELSE /\ initial_mouse_pos' = Some(<<event.x, event.y>>)
            /\ fresh' = TRUE
            /\ lpc' = "move_unlock"
            /\ UNCHANGED <<sr_new_running, sr_reason>>
    /\ UNCHANGED <<is_running, stdout, event, call, emitted, streak, moves,
                   pos_guard>>
    /\ UNCHANGED <<off_calls, clicker_vars>>

\* line 172: pos_guard goes out of scope
MoveUnlock ==
    /\ lpc = "move_unlock"
    /\ pos_guard' = FALSE
    /\ lpc' = "listen"
    /\ UNCHANGED <<is_running, initial_mouse_pos, stdout, event, call,
                   emitted, streak, moves, fresh, sr_new_running, sr_reason>>
    /\ UNCHANGED <<off_calls, clicker_vars>>

ListenerStep ==
    \/ \E e \in Events : Receive(e)
    \/ ToggleRead
    \/ SrCheck
    \/ SrClear
    \/ SrStore
    \/ SrWrite
    \/ MoveRead
    \/ MoveLock
    \/ MoveCompare
    \/ MoveUnlock

NextSteps ==
    \/ ListenerStep
    \/ Clicker

SpecSteps == Init /\ [][NextSteps]_vars

----------------------------------------------------------------------------
(* sample_positive on its own: one call after another, the distribution's  *)
(* mean and every sampled value chosen freely.  The f64 values are         *)
(* modelled as integers; only their sign and their identity matter to the  *)
(* function                                                                *)

\* for _ in 0..10
Attempts == 10

\* values distribution.sample(rng) can return
Draws == {-1, 0, 1}

\* values of distribution.mean(), none of them a value of Draws
Means == {-3, 0, 3}

IsPositive_ge(value) == value >= 0

\* value > 0.0
IsPositive(value) == value > 0

\* what a step of sample_positive leaves alone
sample_frame == <<listener_vars, off_calls, cpc, armed_seen, cycle_calls,
                  held, wait_vars>>

SpCall ==
    /\ sp_pc \in {"idle", "done"}
    /\ \E mean \in Means : sp_mean' = mean
    /\ sp_i' = 0
    /\ sp_draws' = <<>>
    /\ sp_result' = None
    /\ sp_pc' = "loop"
    /\ UNCHANGED sp_value
    /\ UNCHANGED sample_frame

SpLoop ==
    /\ sp_pc = "loop"
    /\ IF sp_i < Attempts
          THEN /\ sp_i' = sp_i + 1
               /\ sp_pc' = "sample"
          ELSE /\ sp_pc' = "exhausted"
               /\ UNCHANGED sp_i
    /\ UNCHANGED <<sp_value, sp_draws, sp_result, sp_mean>>
    /\ UNCHANGED sample_frame

SpSample ==
    /\ sp_pc = "sample"
    /\ \E value \in Draws :
        /\ sp_value' = value
        /\ sp_draws' = Append(sp_draws, value)
    /\ sp_pc' = "test"
    /\ UNCHANGED <<sp_i, sp_result, sp_mean>>
    /\ UNCHANGED sample_frame

SpTest ==
    /\ sp_pc = "test"
    /\ IF IsPositive(sp_value)
          THEN /\ sp_result' = Some(sp_value)
               /\ sp_pc' = "done"
          ELSE /\ sp_pc' = "loop"
               /\ UNCHANGED sp_result
    /\ UNCHANGED <<sp_i, sp_value, sp_draws, sp_mean>>
    /\ UNCHANGED sample_frame

SpExhausted ==
    /\ sp_pc = "exhausted"
    /\ sp_result' = Some(sp_mean)
    /\ sp_pc' = "done"
    /\ UNCHANGED <<sp_i, sp_value, sp_draws, sp_mean>>
    /\ UNCHANGED sample_frame

sample_positive ==
    \/ SpCall
    \/ SpLoop
    \/ SpSample
    \/ SpTest
    \/ SpExhausted

SpecSample == Init /\ [][sample_positive]_vars

----------------------------------------------------------------------------
(* The program as it runs: the listener statement by statement, rdev::listen *)
(* able to return an error, and the clicker thread, an operating system    *)
(* thread whose every step is a bounded sleep or a call that returns,      *)
(* scheduled fairly.  The listener takes a step only when the user or the  *)
(* operating system produces an event, so nothing forces it to.            *)

\* the events: the hotkey, a mouse move at the first position, one further
\* away than MOVE_STOP_DISTANCE_PX, and a button press
LiveEvents ==
    {KeyPress(RUNNING_TOGGLE_KEY), MouseMove(0, 0), MouseMove(20, 20),
     ButtonPress}

\* lines 140-146: rdev::listen returns Err, listener_thread prints the error
\* to stderr and returns; main (lines 76-79) does not spawn it again
ListenFail ==
    /\ lpc = "listen"
    /\ lpc' = "exited"
    /\ UNCHANGED <<is_running, initial_mouse_pos, stdout, event, call,
                   emitted, streak, moves, fresh, sr_new_running, sr_reason,
                   pos_guard>>
    /\ UNCHANGED <<off_calls, clicker_vars>>

\* history: the call is added to the calls made since the last store
CountCall(button_event) ==
    off_calls' = IF Len(off_calls) < MaxOffCalls
                 THEN Append(off_calls, button_event)
                 ELSE off_calls

LivePress == PressButton /\ CountCall("ButtonPress")

LiveRelease == ReleaseButton /\ CountCall("ButtonRelease")

LiveStore == StoreRunning /\ off_calls' = <<>>

LiveClicker ==
    \/ ClickerCheck
    \/ ClickerIdle
    \/ ClickerSample
    \/ LivePress
    \/ ClickerHold
    \/ LiveRelease
    \/ ClickerInterval

LiveListener ==
    \/ \E e \in LiveEvents : Receive(e)
    \/ ToggleRead
    \/ SrCheck
    \/ SrClear
    \/ LiveStore
    \/ SrWrite
    \/ MoveRead
    \/ MoveLock
    \/ MoveCompare
    \/ MoveUnlock
    \/ ListenFail

NextLive ==
    \/ LiveListener
    \/ LiveClicker

SpecLive == Init /\ [][NextLive]_vars /\ WF_vars(LiveClicker)

----------------------------------------------------------------------------
(* adaptive_wait on its own: one call after another with every duration,   *)
(* against a clock that advances between any two steps.  Instant and       *)
(* Duration count nanoseconds; a clock unit is one of them.  The clock     *)
(* keeps advancing and the thread keeps being scheduled.                   *)

Slice_half(remaining) == remaining \div 2

\* remaining / 4 (Duration divided by u32: integer division)
Slice(remaining) == remaining \div 4

\* what a step of adaptive_wait leaves alone
wait_frame == <<listener_vars, off_calls, cpc, armed_seen, cycle_calls, held,
                sample_vars>>

\* time passes; the clock of the model stops at MaxClock, or when the
\* sleep that is under way then is over
Tick ==
    /\ clock < MaxClock \/ (aw_pc = "sleeping" /\ clock < aw_wake)
    /\ clock' = clock + 1
    /\ UNCHANGED <<aw_pc, aw_end, aw_now, aw_wake, aw_slices>>
    /\ UNCHANGED wait_frame

\* line 127
AwCall(duration) ==
    /\ aw_pc \in {"idle", "done"}
    /\ clock + duration <= MaxClock
    /\ aw_end' = clock + duration
    /\ aw_slices' = {}
    /\ aw_pc' = "now"
    /\ UNCHANGED <<aw_now, aw_wake, clock>>
    /\ UNCHANGED wait_frame

\* line 129
AwNow ==
    /\ aw_pc = "now"
    /\ aw_now' = clock
    /\ aw_pc' = "test"
    /\ UNCHANGED <<aw_end, aw_wake, aw_slices, clock>>
    /\ UNCHANGED wait_frame

\* lines 130-132
AwTest ==
    /\ aw_pc = "test"
    /\ aw_pc' = IF aw_now >= aw_end THEN "done" ELSE "sleep"
    /\ UNCHANGED <<aw_end, aw_now, aw_wake, aw_slices, clock>>
    /\ UNCHANGED wait_frame

\* lines 133-134: thread::sleep is called
AwSleep ==
    /\ aw_pc = "sleep"
    /\ LET remaining == aw_end - aw_now
       IN  /\ aw_wake' = clock + Slice(remaining)
           /\ aw_slices' = aw_slices \cup {Slice(remaining)}
    /\ aw_pc' = "sleeping"
    /\ UNCHANGED <<aw_end, aw_now, clock>>
    /\ UNCHANGED wait_frame

\* line 134: thread::sleep returns, not before the slice has passed
AwWake ==
    /\ aw_pc = "sleeping"
    /\ clock >= aw_wake
    /\ aw_pc' = "now"
    /\ UNCHANGED <<aw_end, aw_now, aw_wake, aw_slices, clock>>
    /\ UNCHANGED wait_frame

\* the loop of lines 128-135
AwStep ==
    \/ AwNow
    \/ AwTest
    \/ AwSleep
    \/ AwWake

adaptive_wait ==
    \/ \E duration \in 0..MaxDuration : AwCall(duration)
    \/ AwStep

NextWait ==
    \/ adaptive_wait
    \/ Tick

SpecWait ==
    Init /\ [][NextWait]_vars /\ WF_vars(AwStep) /\ WF_vars(Tick)

----------------------------------------------------------------------------
(* Properties *)

Toggle == KeyPress(RUNNING_TOGGLE_KEY)

\* this step is handle_event on the event it leaves in event (HandleEvent(e)
\* sets event' = e, so it is HandleEvent(e) for that e and no other)
ToggleHandled == event' = Toggle /\ HandleEvent(event')

MoveHandled == event'.type = "MouseMove" /\ HandleEvent(event')

\* a disarm by mouse movement happened in an earlier session, so that session
\* left a position behind
LeftoverSession ==
    /\ Len(stdout) >= 3
    /\ stdout[2] = LogLine(FALSE, "mouse moved")
    /\ stdout[3].state = "ON "

\* C1: set_running(new, reason) writes exactly one line, naming reason, if
\* and only if new differs from the flag; when new equals the flag the call
\* changes neither the flag nor the position nor stdout, so two calls in a
\* row with the same value write at most one line in total.
C1_SetRunningIdempotent ==
    [][(call'.made /\ CallSetRunning(call'.new_running, call'.reason)) =>
         LET n == call'.new_running
             r == call'.reason
         IN  /\ n # is_running =>
                   stdout' = Append(stdout,
                                    [state |-> IF n THEN "ON " ELSE "OFF",
                                     reason |-> r])
             /\ n = is_running =>
                   UNCHANGED <<is_running, initial_mouse_pos, stdout>>
             /\ (call.made /\ call.new_running = n) =>
                   emitted + emitted' <= 1
      ]_vars

\* C1 witness: set_running(true, _) called twice in a row while running with
\* a position recorded; the second call wrote nothing and kept the position.
C1_Witness ==
    /\ call.made /\ call.repeat /\ call.new_running
    /\ is_running
    /\ initial_mouse_pos # None
    /\ emitted = 0

\* C2: the position is None right after every change of the flag from false
\* to true, and no other step turns a recorded position into None; a change
\* of the flag from true to false leaves the position as it is.
C2_OriginResetExactlyOnArm ==
    [][/\ (~is_running /\ is_running') => initial_mouse_pos' = None
       /\ (initial_mouse_pos # None /\ initial_mouse_pos' = None) =>
             (~is_running /\ is_running')
       /\ (is_running /\ ~is_running') =>
             initial_mouse_pos' = initial_mouse_pos
      ]_vars

\* C2 witness: the hotkey has just armed a session that follows one ended by
\* mouse movement, and the position that session left is gone.
C2_Witness ==
    /\ LeftoverSession
    /\ Len(stdout) = 3
    /\ event = Toggle
    /\ is_running
    /\ initial_mouse_pos = None

\* C4: the first mouse move handled in an armed session records its own
\* position and does not disarm, whatever position an earlier session left.
C4_FirstMoveRecordsOwnPosition ==
    [][(is_running /\ moves = 0 /\ MoveHandled) =>
         /\ initial_mouse_pos' = Some(<<event'.x, event'.y>>)
         /\ is_running'
         /\ stdout' = stdout
      ]_vars

\* C4 witness: in a session that follows one ended by mouse movement, the
\* first move has been handled and its position is the recorded one.
C4_Witness ==
    /\ LeftoverSession
    /\ is_running
    /\ moves = 1
    /\ event.type = "MouseMove"
    /\ initial_mouse_pos = Some(<<event.x, event.y>>)

\* C5: while armed with a recorded position, a mouse move disarms if and
\* only if its squared distance from that position is strictly greater than
\* 16 * 16; a move at distance exactly 16 does not disarm.
C5_StrictDistanceBoundary ==
    [][(is_running /\ initial_mouse_pos # None /\ MoveHandled) =>
         LET o == initial_mouse_pos[1]
             p == <<event'.x, event'.y>>
             sq == (p[1] - o[1]) * (p[1] - o[1])
                     + (p[2] - o[2]) * (p[2] - o[2])
         IN  is_running' = ~(sq > 16 * 16)
      ]_vars

\* C5 witness: armed with position <<0, 0>>, a move to <<16, 0>> (distance
\* exactly 16) has been compared and the system is still armed.
C5_Witness ==
    /\ is_running
    /\ initial_mouse_pos = Some(<<0, 0>>)
    /\ event = MouseMove(16, 0)
    /\ moves >= 2

\* C6: a recorded position is not changed by later mouse moves of the
\* session; with position <<0, 0>> a move to <<10, 10>> leaves the system
\* armed and the position at <<0, 0>>, and a move to <<20, 20>> disarms with
\* reason "mouse moved".
C6_OriginFixedWithinSession ==
    [][(is_running /\ initial_mouse_pos # None /\ MoveHandled) =>
         /\ initial_mouse_pos' = initial_mouse_pos
         /\ (initial_mouse_pos = Some(<<0, 0>>)
               /\ event' = MouseMove(10, 10)) =>
               is_running' /\ stdout' = stdout
         /\ (initial_mouse_pos = Some(<<0, 0>>)
               /\ event' = MouseMove(20, 20)) =>
               /\ ~is_running'
               /\ stdout' = Append(stdout, [state |-> "OFF",
                                            reason |-> "mouse moved"])
      ]_vars

\* C6 witness: the position <<0, 0>> was recorded by an earlier move of the
\* session, and the later move to <<20, 20>> was compared with it and
\* disarmed, leaving it in place.
C6_Witness ==
    /\ ~is_running
    /\ initial_mouse_pos = Some(<<0, 0>>)
    /\ event = MouseMove(20, 20)
    /\ moves >= 2
    /\ Last(stdout) = [state |-> "OFF", reason |-> "mouse moved"]

\* C7: every toggle-key press flips the flag and writes one line with reason
\* "hotkey pressed"; pressed while disarmed it arms with position None,
\* pressed while armed it disarms.
C7_HotkeyFlips ==
    [][ToggleHandled =>
         /\ is_running' = ~is_running
         /\ stdout' = Append(stdout,
                             [state |-> IF is_running THEN "OFF" ELSE "ON ",
                              reason |-> "hotkey pressed"])
         /\ ~is_running => initial_mouse_pos' = None
      ]_vars

\* C7 witness: the hotkey has disarmed a session that had a position.
C7_Witness ==
    /\ event = Toggle
    /\ ~is_running
    /\ initial_mouse_pos # None
    /\ Last(stdout) = [state |-> "OFF", reason |-> "hotkey pressed"]

\* C8 as stated: two toggle-key presses handled one right after the other
\* write exactly one line (one change of the flag) between them.
C8_DoublePressOneTransition ==
    [][(streak >= 1 /\ ToggleHandled) => emitted + emitted' = 1]_vars

\* C8 amended: two toggle-key presses handled one right after the other
\* write exactly two lines, one ON and one OFF, both with reason "hotkey
\* pressed", and the flag ends as the second line says.
C8_DoublePressTwoTransitions ==
    [][(streak >= 1 /\ ToggleHandled) =>
         /\ emitted + emitted' = 2
         /\ Len(stdout') >= 2
         /\ LET a == stdout'[Len(stdout') - 1]
                b == stdout'[Len(stdout')]
            IN  /\ a.state # b.state
                /\ a.reason = "hotkey pressed"
                /\ b.reason = "hotkey pressed"
                /\ is_running' = (b.state = "ON ")
      ]_vars

\* C8 witness: two presses in a row from the initial state; two lines.
C8_Witness ==
    /\ streak >= 2
    /\ event = Toggle
    /\ emitted = 1
    /\ Len(stdout) = 2
    /\ ~is_running

CallTypes == [i \in 1..Len(cycle_calls) |-> cycle_calls[i].ev]

\* C9: the click loop calls simulate only in a cycle whose read of the flag
\* at line 90 returned true, never when idle, and such a cycle makes exactly
\* two calls: a button press, then a button release.
C9_PressThenReleaseOnlyWhenArmed ==
    /\ cycle_calls # <<>> => armed_seen
    /\ cpc = "idle" => ~armed_seen /\ cycle_calls = <<>>
    /\ CallTypes \in {<<>>, <<"ButtonPress">>,
                       <<"ButtonPress", "ButtonRelease">>}
    /\ (cpc = "check" /\ armed_seen) =>
          CallTypes = <<"ButtonPress", "ButtonRelease">>
    /\ (cpc \in {"sample", "press"}) => armed_seen /\ cycle_calls = <<>>
    /\ (cpc \in {"hold", "release"}) => CallTypes = <<"ButtonPress">>
    /\ (cpc = "interval") => CallTypes = <<"ButtonPress", "ButtonRelease">>

\* C9 witness: a cycle that started armed has ended with its press and
\* release made, although the flag was cleared during the cycle.
C9_Witness ==
    /\ cpc = "check"
    /\ armed_seen
    /\ ~is_running
    /\ Len(cycle_calls) = 2

\* C10: an event that is neither a toggle-key press nor a mouse move
\* received while armed leaves the flag, the position and stdout unchanged.
C10_OtherEventsIgnored ==
    [][(~IsToggle(event') /\ ~(event'.type = "MouseMove" /\ is_running)
          /\ HandleEvent(event')) =>
         UNCHANGED <<is_running, initial_mouse_pos, stdout>>
      ]_vars

\* C10 witness: the clicker has made its button press, the listener has
\* handled a button press event, and the system is armed with its position.
C10_Witness ==
    /\ event = ButtonPress
    /\ is_running
    /\ initial_mouse_pos # None
    /\ Len(cycle_calls) = 1
    /\ cycle_calls[1] = [ev |-> "ButtonPress", ok |-> TRUE]

\* C3: with the statements of set_running as separate steps interleaved
\* with the click thread, no reachable state has the flag true together
\* with a position recorded before the flag last became true: on an
\* effective flip to armed the position is cleared before the flag is stored.
C3_NoStaleOriginWhileArmed ==
    /\ (is_running /\ initial_mouse_pos # None) => fresh
    /\ (lpc = "sr_store" /\ sr_new_running) => initial_mouse_pos = None

\* C3 witness: the hotkey arms after a session that mouse movement ended;
\* the position that session left has been cleared, the flag is still false
\* and the store is the next statement, while the click thread is mid-loop.
C3_Witness ==
    /\ lpc = "sr_store"
    /\ sr_new_running
    /\ ~is_running
    /\ initial_mouse_pos = None
    /\ Len(stdout) = 2
    /\ stdout[2] = LogLine(FALSE, "mouse moved")
    /\ cpc = "interval"

\* the positions of the strictly positive values among the draws of the call
PositiveDraws == {i \in 1..Len(sp_draws) : sp_draws[i] > 0}

\* C11: sample_positive draws at most 10 times; it returns the first draw
\* that is strictly positive and draws no more after it; when all 10 draws
\* are zero or negative it returns exactly the mean; so with a mean above
\* zero the returned value is above zero
C11_SamplePositiveContract ==
    /\ Len(sp_draws) <= 10
    /\ sp_pc = "done" =>
        /\ sp_result # None
        /\ IF PositiveDraws # {}
              THEN /\ PositiveDraws = {Len(sp_draws)}
                   /\ sp_result = Some(sp_draws[Len(sp_draws)])
              ELSE /\ Len(sp_draws) = 10
                   /\ sp_result = Some(sp_mean)
        /\ sp_mean > 0 => sp_result[1] > 0

\* all 10 draws were zero or negative, zero among them, and the positive
\* mean was returned
C11_Witness ==
    /\ sp_pc = "done"
    /\ Len(sp_draws) = 10
    /\ PositiveDraws = {}
    /\ \E i \in 1..10 : sp_draws[i] = 0
    /\ sp_mean > 0
    /\ sp_result = Some(sp_mean)

\* C12: Data starts with the flag false and no position; no step of the
\* clicker thread changes the flag or the position or takes the mutex, every
\* change of the flag or the position is a step of the listener inside a
\* handler, and the clicker thread always has a next step, whatever the
\* listener holds
C12_ClickerReadOnly ==
    /\ is_running = FALSE /\ initial_mouse_pos = None
    /\ [][Clicker => UNCHANGED <<is_running, initial_mouse_pos, pos_guard>>]_vars
    /\ [][(is_running' # is_running \/ initial_mouse_pos' # initial_mouse_pos)
            => (lpc # "listen" /\ UNCHANGED clicker_vars)]_vars
    /\ [](ENABLED Clicker)

\* the clicker has read the stored false and sleeps its idle sleep while the
\* listener is still inside the handler that disarmed, holding the mutex
C12_Witness ==
    /\ pos_guard
    /\ lpc = "sr_print"
    /\ ~is_running
    /\ cpc = "idle"
    /\ armed_seen = FALSE

\* the step is a call of rdev::simulate that failed
FailedCall(button_event) ==
    cycle_calls' = Append(cycle_calls, [ev |-> button_event, ok |-> FALSE])

\* C13: a failed simulate call is not retried and does not end the cycle: a
\* failed press goes on to the hold wait and is followed by one release
\* attempt, a failed release goes on to the interval wait, and neither
\* changes the flag, the position or stdout
C13_FailedSimulateContinues ==
    /\ [][FailedCall("ButtonPress") =>
            /\ cpc' = "hold"
            /\ UNCHANGED <<is_running, initial_mouse_pos, stdout>>]_vars
    /\ [][FailedCall("ButtonRelease") =>
            /\ cpc' = "interval"
            /\ UNCHANGED <<is_running, initial_mouse_pos, stdout>>]_vars
    /\ [](\A i \in 1..Len(cycle_calls) :
            ~cycle_calls[i].ok =>
                IF cycle_calls[i].ev = "ButtonPress"
                   THEN /\ i = 1
                        /\ \/ cpc \in {"hold", "release"} /\ Len(cycle_calls) = 1
                           \/ /\ Len(cycle_calls) = 2
                              /\ cycle_calls[2].ev = "ButtonRelease"
                   ELSE /\ i = 2
                        /\ Len(cycle_calls) = 2
                        /\ cycle_calls[1].ev = "ButtonPress")

\* press and release of one cycle both failed and the loop is in the
\* interval wait, the flag still true
C13_Witness ==
    /\ cpc = "interval"
    /\ is_running
    /\ cycle_calls = <<[ev |-> "ButtonPress", ok |-> FALSE],
                       [ev |-> "ButtonRelease", ok |-> FALSE]>>

\* the listener thread has returned from listener_thread
ListenerExited == lpc = "exited"

\* the step is a call of rdev::simulate with this event
Sent(button_event) ==
    /\ Len(cycle_calls') = Len(cycle_calls) + 1
    /\ cycle_calls'[Len(cycle_calls')].ev = button_event

\* the step is a press sent by the clicker
PressSent == Sent("ButtonPress")

\* the presses among the simulate calls made since the flag was last stored
PressesSinceStore == {i \in 1..Len(off_calls) : off_calls[i] = "ButtonPress"}

\* once the listener has exited it stays exited, and the flag, the position,
\* the mutex and stdout never change again
ExitedFreezesData ==
    [][ListenerExited =>
          /\ ListenerExited'
          /\ UNCHANGED <<is_running, initial_mouse_pos, pos_guard, stdout>>]_vars

\* with the listener gone and the flag true the clicker presses and releases
\* again and again
ExitedArmedClicksForever ==
    /\ (ListenerExited /\ is_running /\ ~held) ~> held
    /\ (ListenerExited /\ is_running /\ held) ~> ~held

\* C14 as stated: after the failure of the listener the flag and the position
\* never change, the clicker clicks forever when the flag was true and does
\* not click at all when it was false
C14_NeverClicksAfterFailure ==
    /\ ExitedFreezesData
    /\ ExitedArmedClicksForever
    /\ [][(ListenerExited /\ ~is_running) => ~PressSent]_vars

\* C14, amended: after the failure of the listener the flag and the position
\* never change, the clicker keeps running and clicks forever when the flag
\* was true; when it was false the clicker sends at most the one press of
\* the cycle it had begun before the flag was cleared, and then idles for
\* good
C14_ListenerFailureFreezesData ==
    /\ ExitedFreezesData
    /\ ExitedArmedClicksForever
    /\ [](ListenerExited => ENABLED LiveClicker)
    /\ [](ListenerExited /\ ~is_running => Cardinality(PressesSinceStore) <= 1)
    /\ (ListenerExited /\ ~is_running) ~> [](cpc \in {"idle", "check"} /\ ~held)

\* the listener failed with the flag false while the clicker was in a cycle;
\* the clicker has sent that cycle's press and release and idles
C14_Witness ==
    /\ ListenerExited
    /\ ~is_running
    /\ cpc = "idle"
    /\ off_calls = <<"ButtonPress", "ButtonRelease">>

\* C15: the clicker reads the flag only at the head of its loop; while a
\* press is out no further press is sent and a change of the flag does not
\* touch the clicker, the press ends only by a release, and every press is
\* followed by its release whatever the listener does meanwhile
C15_ReleaseFollowsPress ==
    /\ [][armed_seen' # armed_seen => cpc = "check"]_vars
    /\ [][held => ~PressSent]_vars
    /\ [][(held /\ ~held') => Sent("ButtonRelease")]_vars
    /\ [][(held /\ is_running' # is_running) => UNCHANGED clicker_vars]_vars
    /\ held ~> ~held
    /\ (held /\ ~is_running) ~> (~held /\ off_calls # <<>>)

\* the flag was cleared while the press was out, and the only call since is
\* the release of that press
C15_Witness ==
    /\ ~is_running
    /\ ~held
    /\ cpc = "interval"
    /\ armed_seen
    /\ off_calls = <<"ButtonRelease">>

\* the clicker is in its idle loop: asleep at line 92 or about to read the
\* flag at line 90
Idle == cpc \in {"idle", "check"}

\* C16: while the flag is false the calls made since it was stored are at
\* most one press and one release, a release after its press; the idle loop
\* stays idle and sends nothing as long as the flag stays false; and the
\* clicker reaches the idle sleep unless the flag is set again
C16_AtMostOnePressAfterDisarm ==
    /\ [](~is_running =>
            /\ Cardinality(PressesSinceStore) <= 1
            /\ off_calls \in {<<>>, <<"ButtonPress">>, <<"ButtonRelease">>,
                              <<"ButtonPress", "ButtonRelease">>})
    /\ [][(~is_running /\ Idle /\ ~is_running') =>
            /\ Idle'
            /\ ~Sent("ButtonPress")
            /\ ~Sent("ButtonRelease")]_vars
    /\ ~is_running ~> (is_running \/ cpc = "idle")

\* the hotkey cleared the flag after the clicker had read it; the clicker has
\* sent the press and the release of that one cycle and sleeps idle, the
\* listener waiting for the next event
C16_Witness ==
    /\ ~is_running
    /\ lpc = "listen"
    /\ Len(stdout) = 2
    /\ cpc = "idle"
    /\ ~armed_seen
    /\ off_calls = <<"ButtonPress", "ButtonRelease">>

\* C17: with the clicker scheduled fairly, the idle sleep always ends in a
\* new read of the flag, and from the idle loop with the flag true a press
\* is sent unless the flag is cleared first
C17_IdleObservesArming ==
    /\ cpc = "idle" ~> cpc = "check"
    /\ (is_running /\ Idle) ~> (~is_running \/ held)
    /\ [](cpc = "idle" => ENABLED ClickerIdle)

\* the first arming: the flag was stored once, the idle loop has seen it and
\* the press is out
C17_Witness ==
    /\ is_running
    /\ Len(stdout) = 1
    /\ armed_seen
    /\ held
    /\ off_calls = <<"ButtonPress">>

\* C18: every sleep of adaptive_wait is one quarter, rounded down, of the
\* time that remained when the clock was read; the wait returns only with
\* the clock at or past its end, which is the start plus the duration; and
\* every call returns, also when the quarter is zero
C18_AdaptiveWaitTerminates ==
    /\ [][(aw_pc = "sleep" /\ aw_pc' = "sleeping") =>
            /\ aw_now < aw_end
            /\ aw_wake' = clock + ((aw_end - aw_now) \div 4)]_vars
    /\ [][(aw_pc = "sleeping" /\ aw_pc' # "sleeping") => clock >= aw_wake]_vars
    /\ [][(aw_pc \in {"idle", "done"} /\ aw_pc' = "now") =>
            aw_end' - clock \in 0..MaxDuration]_vars
    /\ [](aw_pc = "done" => aw_end <= aw_now /\ aw_now <= clock)
    /\ (aw_pc \notin {"idle", "done"}) ~> (aw_pc = "done")

\* a wait that slept a slice of two units and a slice of zero has returned
C18_Witness ==
    /\ aw_pc = "done"
    /\ {0, 2} \subseteq aw_slices
    /\ clock >= aw_end

\* the listener is inside set_running
InSetRunning == lpc \in {"sr_check", "sr_clear", "sr_store", "sr_print"}

\* C19: the mutex of initial_mouse_pos is free whenever the listener waits
\* for the next event; it is held only between line 160 and line 172 of one
\* mouse-move handler; a call of set_running made while it is held is
\* set_running(false), which never reaches the lock of line 44; and the
\* listener inside a handler always has a next step, so it never waits for a
\* mutex it holds itself
C19_OriginLockWithinHandler ==
    /\ lpc = "listen" => ~pos_guard
    /\ pos_guard =>
        /\ event.type = "MouseMove"
        /\ lpc \in {"move_compare", "sr_check", "sr_store", "sr_print",
                    "move_unlock"}
    /\ (pos_guard /\ InSetRunning) =>
        /\ sr_new_running = FALSE
        /\ sr_reason = "mouse moved"
    /\ lpc = "sr_clear" => ~pos_guard /\ sr_new_running
    /\ lpc # "listen" => ENABLED ListenerStep

\* the mouse-move handler holds the mutex and is inside set_running(false),
\* the flag already stored
C19_Witness ==
    /\ pos_guard
    /\ lpc = "sr_print"
    /\ sr_new_running = FALSE
    /\ ~is_running
    /\ initial_mouse_pos # None

\* the state named by the last line of stdout, false when there is none
LoggedState == stdout # <<>> /\ Last(stdout).state = "ON "

\* C20: the lines of stdout alternate ON, OFF, ON, ... from ON; whenever the
\* listener is between two handlers the flag is the state of the last line,
\* false when nothing was written; every "mouse moved" line is an OFF line
\* and every ON line is a "hotkey pressed" line
C20_LogAlternatesAndMatchesFlag ==
    /\ \A i \in 1..Len(stdout) :
        /\ stdout[i].state = IF i % 2 = 1 THEN "ON " ELSE "OFF"
        /\ stdout[i].reason = "mouse moved" => stdout[i].state = "OFF"
        /\ stdout[i].state = "ON " => stdout[i].reason = "hotkey pressed"
    /\ lpc = "listen" => is_running = LoggedState

\* four lines, a disarm by mouse move and a disarm by hotkey among them, the
\* handler of the last one returned
C20_Witness ==
    /\ lpc = "listen"
    /\ Len(stdout) = 4
    /\ stdout[2].reason = "mouse moved"
    /\ stdout[4].reason = "hotkey pressed"
    /\ ~is_running

====
